---- MODULE Spec2Model ----
(***************************************************************************)
(* Model of xata_loaddata.py: a one-shot bulk loader that reads            *)
(* uni_dataset.csv into a DataFrame, cleans and deduplicates it, copies    *)
(* it into the staging table temp_students and merges the staging table    *)
(* into the permanent table students with an upsert.                       *)
(*                                                                         *)
(* A string is a sequence of one-character strings.  A cell of the         *)
(* DataFrame is a string or the missing value NaN.  The database and the   *)
(* input file outlive a process; everything else is process state and is   *)
(* rebuilt when the script is started again.                               *)
(*                                                                         *)
(* The input file is taken as pd.read_csv parses it: a header and rows of  *)
(* cells.  Cells are made of letters, commas and quotes (no backslash, no  *)
(* line break, nothing read_csv would parse as a number).  astype(str) is  *)
(* that of pandas before 3.0: the missing value becomes the string "nan".  *)
(* Every database call and both file writes may raise; cur.close() and     *)
(* conn.close() do not.  A failed statement changes nothing (autocommit,   *)
(* one statement per call).                                                *)
(***************************************************************************)
EXTENDS Integers, Sequences, FiniteSets, Bags, TLC

(* ---------------- bounds of the model ---------------- *)

\* longest input file (data rows) of the cleaning specification
MaxRows == 3
\* longest input file (data rows) of the pipeline specifications
MaxLoadRows == 2
\* number of times the script is started
MaxRuns == 2

(* ---------------- program constants ---------------- *)

NameMax == 255
RollMax == 100
BranchMax == 50

expected_columns == <<"name", "uni_roll", "branch">>

(* ---------------- strings and cells ---------------- *)

\* pandas' missing value; no string equals it (strings hold single characters)
NaN == <<"NaN">>

Range(s) == {s[i] : i \in 1..Len(s)}

Min(a, b) == IF a < b THEN a ELSE b

\* Series.astype(str): every value becomes its str(), the missing value "nan"
AsTypeStr(v) == IF v = NaN THEN <<"n", "a", "n">> ELSE v

\* Series.str.replace(ch, ''), an operation that propagates missing values
StrReplace(v, ch) == IF v = NaN THEN NaN ELSE SelectSeq(v, LAMBDA x : x # ch)

\* Series.str[:n]
StrSlice(v, n) == IF v = NaN THEN NaN ELSE SubSeq(v, 1, Min(n, Len(v)))

\* astype(str).str.replace(',', '').str.replace('"', '').str[:n]
CleanCell(v, n) == StrSlice(StrReplace(StrReplace(AsTypeStr(v), ","), "\""), n)

\* the rows of s at the positions in keep, in order
RECURSIVE Pick(_, _, _)
Pick(s, keep, i) ==
    IF i > Len(s) THEN <<>>
    ELSE (IF i \in keep THEN <<s[i]>> ELSE <<>>) \o Pick(s, keep, i + 1)

(* ---------------- the DataFrame ---------------- *)

\* A DataFrame is [columns, rows]; a row is [idx, cells]: its index label
\* (the position in the file, from 0) and a function from column to cell.

\* df[expected_columns]
SelectColumns(d) ==
    [columns |-> expected_columns,
     rows |-> [i \in 1..Len(d.rows) |->
                 [idx |-> d.rows[i].idx,
                  cells |-> [c \in Range(expected_columns) |-> d.rows[i].cells[c]]]]]

\* the three column assignments of the cleaning step
CleanColumns(d) ==
    [columns |-> d.columns,
     rows |-> [i \in 1..Len(d.rows) |->
                 [idx |-> d.rows[i].idx,
                  cells |-> [c \in DOMAIN d.rows[i].cells |->
                               CASE c = "name" -> CleanCell(d.rows[i].cells[c], NameMax)
                                 [] c = "uni_roll" -> CleanCell(d.rows[i].cells[c], RollMax)
                                 [] c = "branch" -> CleanCell(d.rows[i].cells[c], BranchMax)
                                 [] OTHER -> d.rows[i].cells[c]]]]]

\* df.dropna(subset=expected_columns)
DropNa(d) ==
    [columns |-> d.columns,
     rows |-> SelectSeq(d.rows,
                LAMBDA r : \A c \in Range(expected_columns) : r.cells[c] # NaN)]

\* df['uni_roll'].duplicated(): the positions whose uni_roll occurred before
Duplicated(d) ==
    {i \in 1..Len(d.rows) :
       \E j \in 1..(i - 1) : d.rows[j].cells.uni_roll = d.rows[i].cells.uni_roll}

\* as DropDuplicates, but keeping the last occurrence
DropDuplicatesLast(d) ==
    [columns |-> d.columns,
     rows |-> Pick(d.rows,
                {i \in 1..Len(d.rows) :
                   ~ \E j \in (i + 1)..Len(d.rows) :
                       d.rows[j].cells.uni_roll = d.rows[i].cells.uni_roll}, 1)]

\* df.drop_duplicates(subset=['uni_roll'], keep='first')
DropDuplicates(d) ==
    [columns |-> d.columns,
     rows |-> Pick(d.rows, (1..Len(d.rows)) \ Duplicated(d), 1)]

\* lines 37-45: clean, drop missing, drop duplicates when there are any
CleanFrame(d) ==
    LET c == DropNa(CleanColumns(d))
    IN IF Duplicated(c) # {} THEN DropDuplicates(c) ELSE c

EmptyFrame == [columns |-> <<>>, rows |-> <<>>]

(* ---------------- input files ---------------- *)

\* uni_dataset.csv as pd.read_csv parses it: unreadable, or a header and rows
Unreadable == [readable |-> FALSE, columns |-> <<>>, rows |-> <<>>]

MkRow(n, u, b) == [name |-> n, uni_roll |-> u, branch |-> b, extra_col |-> <<"e">>]

MkFile(header, body) ==
    [readable |-> TRUE,
     columns |-> header,
     rows |-> [i \in 1..Len(body) |-> [c \in Range(header) |-> body[i][c]]]]

Bodies(rows, n) == UNION {[1..k -> rows] : k \in 0..n}

FilesOf(headers, rows, n) ==
    {MkFile(h, b) : h \in headers, b \in Bodies(rows, n)} \cup {Unreadable}

RECURSIVE Rep(_, _)
Rep(ch, n) == IF n = 0 THEN <<>> ELSE <<ch>> \o Rep(ch, n - 1)

CleanHeaders ==
    {<<"name", "uni_roll", "branch">>,
     <<"branch", "extra_col", "uni_roll", "name">>,
     <<"name", "branch">>}

\* rows of the cleaning specification: missing cells, cells that cleaning
\* changes, identifiers that collide only after stripping or truncation
CleanRows ==
    {MkRow(<<"a">>, <<"r">>, <<"x">>),
     MkRow(<<"c">>, <<"r">>, <<"x">>),
     MkRow(<<"a", ",", "c">>, <<"r", ",">>, <<"x">>),
     MkRow(<<"c">>, <<"\"", "s">>, <<"x", "x">>),
     MkRow(NaN, <<"s">>, <<"x">>),
     MkRow(<<"a">>, NaN, <<"x">>),
     MkRow(<<"c">>, NaN, NaN),
     MkRow(<<"a">>, <<"s">>, NaN),
     MkRow(<<"a">>, Rep("r", RollMax) \o <<"s">>, <<"x">>),
     MkRow(<<"c">>, Rep("r", RollMax) \o <<"r">>, Rep("x", BranchMax + 1))}

CleanFiles == FilesOf(CleanHeaders, CleanRows, MaxRows)

LoadHeaders ==
    {<<"name", "uni_roll", "branch">>,
     <<"uni_roll", "name", "branch">>,
     <<"name", "extra_col", "branch", "uni_roll">>,
     <<"name", "branch">>}

\* rows of the pipeline specifications
LoadRows ==
    {MkRow(<<"a">>, <<"r">>, <<"x">>),
     MkRow(<<"c">>, <<"r", ",">>, <<"x">>),
     MkRow(<<"a">>, <<"s">>, <<"x">>)}

LoadFiles == FilesOf(LoadHeaders, LoadRows, MaxLoadRows)

(* ---------------- CSV buffer and COPY ---------------- *)

RECURSIVE DoubleQuotes(_)
DoubleQuotes(s) ==
    IF s = <<>> THEN <<>>
    ELSE (IF Head(s) = "\"" THEN <<"\"", "\"">> ELSE <<Head(s)>>) \o DoubleQuotes(Tail(s))

\* csv.QUOTE_MINIMAL: a field is quoted when it holds the separator or a quote;
\* a missing value is written as the empty field
CsvField(v) ==
    IF v = NaN THEN <<>>
    ELSE IF \E i \in 1..Len(v) : v[i] \in {",", "\""}
         THEN <<"\"">> \o DoubleQuotes(v) \o <<"\"">>
         ELSE v

RECURSIVE CsvJoin(_)
CsvJoin(fields) ==
    IF Len(fields) = 0 THEN <<>>
    ELSE IF Len(fields) = 1 THEN fields[1]
    ELSE fields[1] \o <<",">> \o CsvJoin(Tail(fields))

\* df.to_csv(buffer, index=False, header=False, sep=','): one line per row,
\* the cells in the order of df.columns
ToCsv(d) ==
    [i \in 1..Len(d.rows) |->
       CsvJoin([k \in 1..Len(d.columns) |-> CsvField(d.rows[i].cells[d.columns[k]])])]

\* COPY's text format: a line is split at every separator
RECURSIVE SplitLine(_, _)
SplitLine(line, acc) ==
    IF line = <<>> THEN <<acc>>
    ELSE IF Head(line) = "," THEN <<acc>> \o SplitLine(Tail(line), <<>>)
    ELSE SplitLine(Tail(line), Append(acc, Head(line)))

\* a line COPY accepts for temp_students(name, uni_roll, branch): three
\* fields, each within its VARCHAR
LineFits(line) ==
    LET f == SplitLine(line, <<>>)
    IN /\ Len(f) = 3
       /\ Len(f[1]) <= NameMax
       /\ Len(f[2]) <= RollMax
       /\ Len(f[3]) <= BranchMax

\* columns=('name', 'uni_roll', 'branch'): the fields by position
LineRow(line) ==
    LET f == SplitLine(line, <<>>)
    IN [name |-> f[1], uni_roll |-> f[2], branch |-> f[3]]

RECURSIVE CopyRows(_)
CopyRows(buf) ==
    IF buf = <<>> THEN EmptyBag
    ELSE SetToBag({LineRow(Head(buf))}) (+) CopyRows(Tail(buf))

(* ---------------- tables ---------------- *)

\* a table is absent, or holds a bag of rows [name, uni_roll, branch]
NoTable == [exists |-> FALSE, rows |-> EmptyBag]
EmptyTable == [exists |-> TRUE, rows |-> EmptyBag]

Keys(rows) == {r.uni_roll : r \in BagToSet(rows)}

\* the staged rows carry no uni_roll twice (else the upsert would have to
\* affect a row a second time and the statement fails)
StagedOnce(stg) ==
    \A r \in BagToSet(stg) :
       /\ CopiesIn(r, stg) = 1
       /\ \A q \in BagToSet(stg) : q.uni_roll = r.uni_roll => q = r

RECURSIVE SeqOfSet(_)
SeqOfSet(S) ==
    IF S = {} THEN <<>>
    ELSE LET x == CHOOSE y \in S : TRUE IN <<x>> \o SeqOfSet(S \ {x})

\* n copies of x
RECURSIVE Copies(_, _)
Copies(x, n) == IF n = 0 THEN EmptyBag ELSE SetToBag({x}) (+) Copies(x, n - 1)

\* DO UPDATE SET name = EXCLUDED.name, branch = EXCLUDED.branch on the row r
UpdatedRow(r, stg) ==
    IF r.uni_roll \in Keys(stg)
    THEN LET e == CHOOSE x \in BagToSet(stg) : x.uni_roll = r.uni_roll
         IN [name |-> e.name, uni_roll |-> r.uni_roll, branch |-> e.branch]
    ELSE r

\* the rows of the table after the updates, todo listing its distinct rows
RECURSIVE UpdateAll(_, _, _)
UpdateAll(tbl, stg, todo) ==
    IF todo = <<>> THEN EmptyBag
    ELSE Copies(UpdatedRow(Head(todo), stg), CopiesIn(Head(todo), tbl))
         (+) UpdateAll(tbl, stg, Tail(todo))

\* as Upsert, but a plain INSERT that never updates
UpsertInsertOnly(tbl, stg) == tbl (+) stg

\* INSERT INTO students SELECT ... FROM temp_students
\* ON CONFLICT (uni_roll) DO UPDATE SET name = EXCLUDED.name, branch = EXCLUDED.branch
Upsert(tbl, stg) ==
    LET inserted == {e \in BagToSet(stg) : e.uni_roll \notin Keys(tbl)}
    IN UpdateAll(tbl, stg, SeqOfSet(BagToSet(tbl))) (+) SetToBag(inserted)

(* ---------------- state ---------------- *)

VARIABLES
    file,          \* uni_dataset.csv on disk, as pd.read_csv parses it
    pc,            \* position of the running script
    df,            \* the DataFrame
    conn,          \* the connection: "none", "open" or "closed"
    cur,           \* the cursor: "none", "open" or "closed"
    buffer,        \* the in-memory CSV handed to COPY
    students,      \* the permanent table
    temp_students, \* the staging table
    failed_rows,   \* what this process wrote to failed_rows.csv
    exit_status,   \* the process's exit status, Running until it exits
    issued,        \* the SQL statements this process sent
    raised,        \* the steps of this process that raised an exception
    mismatch,      \* this process printed the row-count mismatch warning
    students0,     \* the permanent table when this process started
    temp0,         \* the staging table when this process started
    run,           \* how many times the script was started
    loads          \* how many of the finished processes exited with status 0

vars == <<file, pc, df, conn, cur, buffer, students, temp_students, failed_rows,
          exit_status, issued, raised, mismatch, students0, temp0, run, loads>>

db == <<students, temp_students>>
proc == <<df, conn, cur, buffer, failed_rows, issued, raised, mismatch>>
hist == <<file, students0, temp0, run>>

Running == -1

NoFile == [written |-> FALSE, columns |-> <<>>, rows |-> <<>>]

\* sys.exit(code), or the interpreter ending the script
Exit(code) ==
    /\ pc' = "exited"
    /\ exit_status' = code
    /\ loads' = IF code = 0 THEN loads + 1 ELSE loads

Goto(label) == pc' = label /\ UNCHANGED <<exit_status, loads>>

Raise(step) == raised' = raised \cup {step}

Send(stmts) == issued' = issued \cup stmts

\* cur.close(); conn.close()
CloseAll == cur' = "closed" /\ conn' = "closed"

(* ---------------- step 1: load, validate, clean ---------------- *)

\* lines 20-25
ReadCSV ==
    /\ pc = "read"
    /\ IF file.readable
       THEN /\ df' = [columns |-> file.columns,
                      rows |-> [i \in 1..Len(file.rows) |->
                                  [idx |-> i - 1, cells |-> file.rows[i]]]]
            /\ Goto("validate")
            /\ UNCHANGED raised
       ELSE /\ Raise("read")
            /\ Exit(1)
            /\ UNCHANGED df
    /\ UNCHANGED <<db, hist, conn, cur, buffer, failed_rows, issued, mismatch>>

\* lines 28-34
Validate ==
    /\ pc = "validate"
    /\ IF ~ (\A col \in Range(expected_columns) : col \in Range(df.columns))
       THEN /\ Raise("validate")
            /\ Exit(1)
            /\ UNCHANGED df
       ELSE /\ df' = IF Len(df.columns) > Len(expected_columns)
                     THEN SelectColumns(df) ELSE df
            /\ Goto("clean")
            /\ UNCHANGED raised
    /\ UNCHANGED <<db, hist, conn, cur, buffer, failed_rows, issued, mismatch>>

\* lines 37-45
Clean ==
    /\ pc = "clean"
    /\ df' = CleanFrame(df)
    /\ Goto("connect")
    /\ UNCHANGED <<db, hist, conn, cur, buffer, failed_rows, issued, raised, mismatch>>

(* ---------------- step 3: connect ---------------- *)

\* as Connect, but the handler of a failed connect does not exit
ConnectNoExit ==
    /\ pc = "connect"
    /\ \/ /\ conn' = "open" /\ cur' = "open"
          /\ Goto("create_students")
          /\ UNCHANGED raised
       \/ /\ Raise("connect")
          /\ Goto("create_students")
          /\ UNCHANGED <<conn, cur>>
       \/ /\ conn' = "open"
          /\ Raise("cursor")
          /\ Exit(1)
          /\ UNCHANGED cur
    /\ UNCHANGED <<db, hist, df, buffer, failed_rows, issued, mismatch>>

\* lines 51-65: psycopg2.connect raises, or the connection is opened and
\* setting autocommit or creating the cursor raises, or all succeed; the
\* handler exits without closing anything
Connect ==
    /\ pc = "connect"
    /\ \/ /\ conn' = "open" /\ cur' = "open"
          /\ Goto("create_students")
          /\ UNCHANGED raised
       \/ /\ Raise("connect")
          /\ Exit(1)
          /\ UNCHANGED <<conn, cur>>
       \/ /\ conn' = "open"
          /\ Raise("cursor")
          /\ Exit(1)
          /\ UNCHANGED cur
    /\ UNCHANGED <<db, hist, df, buffer, failed_rows, issued, mismatch>>

(* ---------------- step 4: the permanent table ---------------- *)

\* lines 76-83: CREATE TABLE IF NOT EXISTS students
CreateTable ==
    /\ pc = "create_students"
    /\ Send({"create_students"})
    /\ \/ /\ students' = IF students.exists THEN students ELSE EmptyTable
          /\ Goto("create_temp")
          /\ UNCHANGED <<conn, cur, raised>>
       \/ /\ Raise("create_students")
          /\ CloseAll
          /\ Exit(1)
          /\ UNCHANGED students
    /\ UNCHANGED <<temp_students, hist, df, buffer, failed_rows, mismatch>>

(* ---------------- step 5: staging, COPY, merge ---------------- *)

\* as CreateStaging, but an existing staging table is kept with its rows
CreateStagingKeep ==
    /\ pc = "create_temp"
    /\ \/ /\ Send({"drop_temp_if_exists", "create_temp"})
          /\ temp_students' = IF temp_students.exists THEN temp_students ELSE EmptyTable
          /\ Goto("convert")
          /\ UNCHANGED <<conn, cur, raised>>
       \/ /\ Send({"drop_temp_if_exists"})
          /\ Raise("drop_temp_if_exists")
          /\ CloseAll
          /\ Exit(1)
          /\ UNCHANGED temp_students
       \/ /\ Send({"drop_temp_if_exists", "create_temp"})
          /\ temp_students' = NoTable
          /\ Raise("create_temp")
          /\ CloseAll
          /\ Exit(1)
    /\ UNCHANGED <<students, hist, df, buffer, failed_rows, mismatch>>

\* lines 89-103: DROP TABLE IF EXISTS temp_students; CREATE TABLE temp_students
CreateStaging ==
    /\ pc = "create_temp"
    /\ \/ /\ Send({"drop_temp_if_exists", "create_temp"})
          /\ temp_students' = EmptyTable
          /\ Goto("convert")
          /\ UNCHANGED <<conn, cur, raised>>
       \/ /\ Send({"drop_temp_if_exists"})
          /\ Raise("drop_temp_if_exists")
          /\ CloseAll
          /\ Exit(1)
          /\ UNCHANGED temp_students
       \/ /\ Send({"drop_temp_if_exists", "create_temp"})
          /\ temp_students' = NoTable
          /\ Raise("create_temp")
          /\ CloseAll
          /\ Exit(1)
    /\ UNCHANGED <<students, hist, df, buffer, failed_rows, mismatch>>

\* lines 107-109: outside every try, so an exception ends the process with
\* the interpreter's status 1 and nothing is closed
Convert ==
    /\ pc = "convert"
    /\ \/ /\ buffer' = ToCsv(df)
          /\ Goto("copy")
          /\ UNCHANGED raised
       \/ /\ Raise("convert")
          /\ Exit(1)
          /\ UNCHANGED buffer
    /\ UNCHANGED <<db, hist, df, conn, cur, failed_rows, issued, mismatch>>

\* as RecoveryFile, but only the header is written
RecoveryFileHeaderOnly(d) == [written |-> TRUE, columns |-> d.columns, rows |-> <<>>]

\* df.to_csv('failed_rows.csv', index=False)
RecoveryFile(d) ==
    [written |-> TRUE,
     columns |-> d.columns,
     rows |-> [i \in 1..Len(d.rows) |-> d.rows[i].cells]]

\* lines 112-127: COPY is one statement, all rows or none; its handler
\* writes the recovery file, closes and exits, and a failure of that write
\* leaves the handler before the close
Copy ==
    /\ pc = "copy"
    /\ Send({"copy"})
    /\ \/ /\ \A i \in 1..Len(buffer) : LineFits(buffer[i])
          /\ temp_students' = [temp_students EXCEPT !.rows = @ (+) CopyRows(buffer)]
          /\ Goto("merge")
          /\ UNCHANGED <<conn, cur, failed_rows, raised>>
       \/ /\ Raise("copy")
          /\ failed_rows' = RecoveryFile(df)
          /\ CloseAll
          /\ Exit(1)
          /\ UNCHANGED temp_students
       \/ /\ raised' = raised \cup {"copy", "recovery"}
          /\ Exit(1)
          /\ UNCHANGED <<conn, cur, failed_rows, temp_students>>
    /\ UNCHANGED <<students, hist, df, buffer, mismatch>>

\* lines 130-144: one INSERT ... ON CONFLICT DO UPDATE statement
Merge ==
    /\ pc = "merge"
    /\ Send({"merge"})
    /\ \/ /\ StagedOnce(temp_students.rows)
          /\ students' = [students EXCEPT !.rows = Upsert(@, temp_students.rows)]
          /\ Goto("cleanup")
          /\ UNCHANGED <<conn, cur, raised>>
       \/ /\ Raise("merge")
          /\ CloseAll
          /\ Exit(1)
          /\ UNCHANGED students
    /\ UNCHANGED <<temp_students, hist, df, buffer, failed_rows, mismatch>>

\* as Cleanup, but a failed DROP closes and exits like the other handlers
CleanupAborts ==
    /\ pc = "cleanup"
    /\ Send({"drop_temp"})
    /\ \/ /\ temp_students' = NoTable
          /\ Goto("verify")
          /\ UNCHANGED <<conn, cur, raised>>
       \/ /\ Raise("drop_temp")
          /\ CloseAll
          /\ Exit(1)
          /\ UNCHANGED temp_students
    /\ UNCHANGED <<students, hist, df, buffer, failed_rows, mismatch>>

\* lines 147-151: DROP TABLE temp_students; a failure is only a warning
Cleanup ==
    /\ pc = "cleanup"
    /\ Send({"drop_temp"})
    /\ \/ /\ temp_students' = NoTable
          /\ UNCHANGED raised
       \/ /\ Raise("drop_temp")
          /\ UNCHANGED temp_students
    /\ Goto("verify")
    /\ UNCHANGED <<students, hist, df, conn, cur, buffer, failed_rows, mismatch>>

\* lines 154-161: SELECT COUNT(*) FROM students against len(df); a
\* difference or a failure is only a warning
Verify ==
    /\ pc = "verify"
    /\ Send({"count"})
    /\ \/ /\ mismatch' = (BagCardinality(students.rows) # Len(df.rows))
          /\ UNCHANGED raised
       \/ /\ Raise("count")
          /\ UNCHANGED mismatch
    /\ Goto("teardown")
    /\ UNCHANGED <<db, hist, df, conn, cur, buffer, failed_rows>>

(* ---------------- step 6: close ---------------- *)

\* lines 164-170: close, report, and the script ends
Teardown ==
    /\ pc = "teardown"
    /\ CloseAll
    /\ Exit(0)
    /\ UNCHANGED <<db, hist, df, buffer, failed_rows, issued, raised, mismatch>>

(* ---------------- the script is started again ---------------- *)

\* a new process: fresh process state, the database as the last one left it
Start(f) ==
    /\ pc = "exited"
    /\ run < MaxRuns
    /\ file' = f
    /\ run' = run + 1
    /\ pc' = "read"
    /\ exit_status' = Running
    /\ df' = EmptyFrame
    /\ conn' = "none" /\ cur' = "none"
    /\ buffer' = <<>>
    /\ failed_rows' = NoFile
    /\ issued' = {} /\ raised' = {}
    /\ mismatch' = FALSE
    /\ students0' = students
    /\ temp0' = temp_students
    /\ UNCHANGED <<db, loads>>

\* the file was replaced between two runs
StartOther == \E f \in LoadFiles : Start(f)

\* the file is the one the last run read
StartSame == Start(file)

(* ---------------- specifications ---------------- *)

InitWith(files) ==
    /\ file \in files
    /\ pc = "read"
    /\ df = EmptyFrame
    /\ conn = "none" /\ cur = "none"
    /\ buffer = <<>>
    /\ students = NoTable
    /\ temp_students = NoTable
    /\ failed_rows = NoFile
    /\ exit_status = Running
    /\ issued = {} /\ raised = {}
    /\ mismatch = FALSE
    /\ students0 = NoTable
    /\ temp0 = NoTable
    /\ run = 1
    /\ loads = 0

Load ==
    \/ ReadCSV \/ Validate \/ Clean \/ Connect \/ CreateTable \/ CreateStaging
    \/ Convert \/ Copy \/ Merge \/ Cleanup \/ Verify \/ Teardown

\* any sequence of runs over any files
Init == InitWith(LoadFiles)
Next == Load \/ StartOther
Spec == Init /\ [][Next]_vars

\* runs in succession on one unchanged file
InitSame == InitWith(LoadFiles)
NextSame == Load \/ StartSame
SpecSame == InitSame /\ [][NextSame]_vars

\* the head of the pipeline over the files of the cleaning specification
InitClean == InitWith(CleanFiles)
NextClean == ReadCSV \/ Validate \/ Clean
SpecClean == InitClean /\ [][NextClean]_vars

(* ---------------- properties ---------------- *)

\* df holds the cleaned dataset
AfterClean ==
    /\ pc \notin {"read", "validate", "clean"}
    /\ raised \cap {"read", "validate"} = {}

FileRows == 1..Len(file.rows)

\* the cleaned cells of the i-th row of the file
FileName(i) == CleanCell(file.rows[i].name, NameMax)
FileRoll(i) == CleanCell(file.rows[i].uni_roll, RollMax)
FileBranch(i) == CleanCell(file.rows[i].branch, BranchMax)

\* the i-th row of the file misses a required field
Missing(i) == \E c \in Range(expected_columns) : file.rows[i][c] = NaN

\* the rows of the file that are the first with their cleaned identifier
FirstRows == {i \in FileRows : ~ \E j \in 1..(i - 1) : FileRoll(j) = FileRoll(i)}

\* no uni_roll is on two rows of the table
UniqueRoll(tbl) ==
    \A r \in BagToSet(tbl.rows) :
       /\ CopiesIn(r, tbl.rows) = 1
       /\ \A q \in BagToSet(tbl.rows) : q.uni_roll = r.uni_roll => q = r

\* the steps whose failure is fatal
Fatal ==
    {"read", "validate", "connect", "cursor", "create_students",
     "drop_temp_if_exists", "create_temp", "convert", "copy", "recovery", "merge"}

\* C1: after the loader ran on one unchanged file, starting from an empty
\* database, once or several times with status 0, students has as many rows
\* as the file has distinct cleaned uni_roll identifiers and no uni_roll
\* twice: a second run adds no row.
C1_Idempotent ==
    (pc = "exited" /\ loads >= 1) =>
        /\ BagCardinality(students.rows) = Cardinality({FileRoll(i) : i \in FileRows})
        /\ UniqueRoll(students)

\* two successful runs on a file with a repeated identifier
C1_Witness ==
    /\ pc = "exited" /\ loads = 2
    /\ BagCardinality(students.rows) >= 1
    /\ BagCardinality(students.rows) < Len(file.rows)

\* C2: when a process has exited, uni_roll is unique in students; after
\* status 0 every identifier of the cleaned file is stored with the name and
\* the branch the file gives it and the rows of all other identifiers are
\* those the process found (so the last successful run that held an
\* identifier decides its name and branch); after status 1 the rows are
\* those the process found.
C2_LastLoadWins ==
    pc = "exited" =>
        /\ UniqueRoll(students)
        /\ IF exit_status = 0
           THEN /\ \A i \in FirstRows :
                      CopiesIn([name |-> FileName(i), uni_roll |-> FileRoll(i),
                                branch |-> FileBranch(i)], students.rows) = 1
                /\ \A r \in BagToSet(students.rows) :
                      r.uni_roll \notin {FileRoll(i) : i \in FileRows} =>
                         CopiesIn(r, students0.rows) = 1
           ELSE students.rows = students0.rows

\* C3: when connecting fails, the process has exited with status 1 and has
\* sent no statement.
C3_ConnectFailStops ==
    (raised \cap {"connect", "cursor"} # {}) =>
        /\ pc = "exited"
        /\ exit_status = 1
        /\ issued = {}

\* a failed connect of a second run, the tables being there from the first
C3_Witness ==
    /\ "connect" \in raised
    /\ run = 2
    /\ students.exists

\* C4: the cleaned dataset has no identifier twice, each of its rows is the
\* first row of the file with that cleaned identifier and carries that
\* row's cleaned cells, and every identifier of a complete row is in it.
C4_FirstOccurrence ==
    AfterClean =>
        /\ \A k, l \in 1..Len(df.rows) :
              df.rows[k].cells.uni_roll = df.rows[l].cells.uni_roll => k = l
        /\ \A k \in 1..Len(df.rows) :
              LET i == df.rows[k].idx + 1
              IN /\ i \in FirstRows
                 /\ df.rows[k].cells.uni_roll = FileRoll(i)
                 /\ df.rows[k].cells.name = FileName(i)
                 /\ df.rows[k].cells.branch = FileBranch(i)
        /\ \A i \in FileRows :
              ~ Missing(i) =>
                 \E k \in 1..Len(df.rows) : df.rows[k].cells.uni_roll = FileRoll(i)

\* three rows, two of which share an identifier only after cleaning and
\* differ in the name
C4_Witness ==
    /\ AfterClean
    /\ Len(file.rows) = 3 /\ Len(df.rows) = 2
    /\ \E i, j \in FileRows :
          /\ i < j
          /\ FileRoll(i) = FileRoll(j)
          /\ file.rows[i].uni_roll # file.rows[j].uni_roll
          /\ FileName(i) # FileName(j)

\* C5: no row of the cleaned dataset comes from a row of the file that
\* misses a required field.
C5_MissingExcluded ==
    AfterClean => \A k \in 1..Len(df.rows) : ~ Missing(df.rows[k].idx + 1)

C7_ConnectionReleased == pc = "exited" => conn # "open"

\* C8: a process that created the staging table and has exited has left no
\* staging table.
C8_StagingDiscarded ==
    (pc = "exited" /\ "create_temp" \in issued \ raised) => ~ temp_students.exists

\* C9: the status is 1 exactly when a fatal step raised and 0 otherwise; a
\* failed DROP of the staging table, a failed count and a count mismatch are
\* no fatal steps, and a process with status 0 has closed the connection.
C9_ExitStatus ==
    pc = "exited" =>
        /\ exit_status \in {0, 1}
        /\ exit_status = 1 <=> raised \cap Fatal # {}
        /\ exit_status = 0 => conn = "closed" /\ cur = "closed"
        /\ (mismatch \/ raised \cap {"drop_temp", "count"} # {}) => exit_status = 0

\* status 0 after a failed DROP of the staging table and a count mismatch
C9_Witness ==
    /\ pc = "exited" /\ exit_status = 0
    /\ "drop_temp" \in raised
    /\ mismatch
    /\ conn = "closed"

\* C10: only the merge changes the rows of students, the merge finds in the
\* staging table exactly the rows COPY loaded from this run's buffer, and a
\* process that exits without a successful merge leaves the rows of
\* students as it found them.
C10_OnlyMergeWrites ==
    [][/\ students'.rows # students.rows => pc = "merge"
       /\ pc = "merge" => temp_students.rows = CopyRows(buffer)
       /\ (pc' = "exited" /\ "merge" \notin issued' \ raised') =>
             students'.rows = students0'.rows]_vars

\* a merge in a run that found rows of another run in the staging table
C10_Witness ==
    /\ pc = "cleanup"
    /\ temp0.rows # EmptyBag
    /\ temp0.rows # temp_students.rows
    /\ students.rows # students0.rows

====
